---- MODULE Spec2Model ----
(***************************************************************************)
(* get_pdf_local_path (src/src/ebook_mcp/tools/get_pdf_local_path.py):     *)
(* a URL-keyed download cache in the shared system temp directory.         *)
(*                                                                         *)
(* Each caller (thread or process) runs the function as a sequence of      *)
(* steps, one per operation on the shared world (the temp directory, the   *)
(* network); the purely local computations between two such operations     *)
(* belong to the step that follows them.  The directory is a POSIX one:    *)
(* names are links to inodes, an open file is a handle (inode, offset), a  *)
(* rename moves the link, and an inode lives while it is linked or open.   *)
(***************************************************************************)
EXTENDS Integers, Sequences, FiniteSets, TLC

(***************************************************************************)
(* Bounds of the model.                                                    *)
(***************************************************************************)
MaxCalls == 2       \* invocations in one behaviour
MaxRaceCalls == 3   \* invocations in one behaviour of two racing callers
MaxBodyLen == 3     \* longest response body, in bytes
ChunkSize == 2      \* bytes asked of resp.read (8192 in the code, scaled down)
MaxExtDeletes == 1  \* deletions by actors outside the routine

Min(a, b) == IF a < b THEN a ELSE b
Max(a, b) == IF a > b THEN a ELSE b

Procs == {1, 2}         \* two callers, so that invocations can overlap
Inodes == 1..Max(MaxCalls, MaxRaceCalls)   \* an invocation creates at most one file


(***************************************************************************)
(* URLs are strings: sequences of characters.                              *)
(***************************************************************************)
UrlA      == <<"h","t","t","p",":","/","/","x","/","a">>        \* http://x/a
UrlASlash == <<"h","t","t","p",":","/","/","x","/","a","/">>    \* http://x/a/
UrlUpper  == <<"H","T","T","P",":","/","/","x","/","a">>        \* HTTP://x/a
UrlNoHost == <<"h","t","t","p","s",":","/","/">>                \* https://
UrlFtp    == <<"f","t","p",":","/","/","x","/","a">>            \* ftp://x/a
UrlFile   == <<"f","i","l","e",":","/","/","/","a">>            \* file:///a
UrlRel    == <<"x","/","a">>                                    \* x/a
Urls == {UrlA, UrlASlash, UrlUpper, UrlNoHost, UrlFtp, UrlFile, UrlRel}

\* str.lower() on the characters of the URLs above
LowerChar(c) ==
    CASE c = "H" -> "h" [] c = "T" -> "t" [] c = "P" -> "p" [] OTHER -> c

Lower(s) == [i \in 1..Len(s) |-> LowerChar(s[i])]

\* urllib.parse.scheme_chars: letters, digits and "+-."
SchemeChars == {"h","t","p","s","f","i","l","e","x","a","H","T","P","+","-","."}
Letters == SchemeChars \ {"+","-","."}

\* url.find(":"): 0-based index of the first colon, -1 when there is none
FindColon(s) ==
    IF \E i \in 1..Len(s) : s[i] = ":"
    THEN (CHOOSE i \in 1..Len(s) : s[i] = ":" /\ \A j \in 1..(i-1) : s[j] # ":") - 1
    ELSE -1

\* urlparse(url).scheme: the characters before the first colon, lower-cased,
\* when they start with a letter and are all scheme characters; else empty
UrlScheme(s) ==
    LET i == FindColon(s) IN
    IF i > 0 /\ s[1] \in Letters /\ \A j \in 1..i : s[j] \in SchemeChars
    THEN Lower(SubSeq(s, 1, i))
    ELSE <<>>

\* what follows the scheme and its colon
AfterScheme(s) ==
    IF UrlScheme(s) = <<>> THEN s ELSE SubSeq(s, FindColon(s) + 2, Len(s))

\* urlparse(url).netloc: after "//", up to the next "/"
UrlNetloc(s) ==
    LET r == AfterScheme(s) IN
    IF Len(r) >= 2 /\ r[1] = "/" /\ r[2] = "/"
    THEN LET t == SubSeq(r, 3, Len(r))
             stop == IF \E i \in 1..Len(t) : t[i] = "/"
                     THEN CHOOSE i \in 1..Len(t) : t[i] = "/" /\ \A j \in 1..(i-1) : t[j] # "/"
                     ELSE Len(t) + 1
         IN SubSeq(t, 1, stop - 1)
    ELSE <<>>

\* urlparse(url), tabulated over the URLs of the model
UrlParsed == [u \in Urls |-> [scheme |-> UrlScheme(u), netloc |-> UrlNetloc(u)]]

\* line 20: parsed = urlparse(url)
urlparse(u) == UrlParsed[u]

\* a scheme set that lets ftp through
ValidSchemesWithFtp == {<<"h","t","t","p">>, <<"h","t","t","p","s">>, <<"f","t","p">>}

\* line 21: {"http", "https"}
ValidSchemes == {<<"h","t","t","p">>, <<"h","t","t","p","s">>}

(***************************************************************************)
(* The cache key and the two file names (lines 24-36).                     *)
(***************************************************************************)
\* ord(c) of the characters above: url.encode("utf-8") on ASCII text
Ord(c) ==
    CASE c = "h" -> 104 [] c = "t" -> 116 [] c = "p" -> 112 [] c = "s" -> 115
      [] c = "f" -> 102 [] c = "i" -> 105 [] c = "l" -> 108 [] c = "e" -> 101
      [] c = "x" -> 120 [] c = "a" -> 97  [] c = "H" -> 72  [] c = "T" -> 84
      [] c = "P" -> 80  [] c = ":" -> 58  [] c = "/" -> 47  [] c = "+" -> 43
      [] c = "-" -> 45  [] c = "." -> 46

Utf8(s) == [i \in 1..Len(s) |-> Ord(s[i])]

\* hashlib.sha256(b).hexdigest(), treated as collision-free: the digest of a
\* byte string is its rank among the byte strings the model hashes
HashDomain == <<Utf8(UrlA), Utf8(UrlASlash), Utf8(UrlUpper), Utf8(UrlNoHost),
                Utf8(UrlFtp), Utf8(UrlFile), Utf8(UrlRel)>>

Sha256(b) == CHOOSE d \in 1..Len(HashDomain) : HashDomain[d] = b

\* the URL with its scheme in lower case, as urlparse reports it
\* (a key derived from it would no longer be string-exact)
NormalisedUrl(u) ==
    IF UrlScheme(u) = <<>> THEN u
    ELSE UrlScheme(u) \o SubSeq(u, FindColon(u) + 1, Len(u))

DigestOfNormalised(u) == Sha256(Utf8(NormalisedUrl(u)))

\* line 25: digest = hashlib.sha256(url.encode("utf-8")).hexdigest()
Digest(u) == Sha256(Utf8(u))

\* one file name for every URL
FilenameFixed(u) == <<1, ".pdf">>

\* line 26: filename = f"{digest}.pdf"
Filename(u) == <<Digest(u), ".pdf">>

\* line 29: tmpdir = tempfile.gettempdir()
TmpDir == "/tmp"

\* line 30: fullpath = os.path.join(tmpdir, filename)
JoinedPath(u) == <<TmpDir>> \o Filename(u)

\* lines 25-30, tabulated over the URLs of the model
FullPaths == [u \in Urls |-> JoinedPath(u)]

FullPath(u) == FullPaths[u]

\* line 36: tmppath = fullpath + ".part"
PartOf(path) == path \o <<".part">>

NoPath == <<>>
Paths == {FullPath(u) : u \in Urls} \cup {PartOf(FullPath(u)) : u \in Urls}

(***************************************************************************)
(* Response bodies: one of every length up to MaxBodyLen.  No byte is 0    *)
(* and the byte at offset i is i, so that a missing, misplaced or foreign  *)
(* byte shows in a file.                                                   *)
(***************************************************************************)
Body(n) == [i \in 1..n |-> i]
Bodies == {Body(n) : n \in 0..MaxBodyLen}
NoBody == <<0>>

(***************************************************************************)
(* An exception is named by the operation that raised it.                  *)
(***************************************************************************)
NoExc == "none"

NoResult == <<"none">>
Returned(path) == <<"return", path>>
Raised(e) == <<"raise", e>>

VARIABLES
    pc,        \* position of each caller in the function
    url,       \* argument of the caller's current (or last) invocation
    fullpath,  \* local variable fullpath
    tmppath,   \* local variable tmppath
    body,      \* the response body of the caller's latest request, NoBody when
               \* the request or its stream failed
    pos,       \* bytes of the body already read from resp
    chunk,     \* local variable chunk
    fd,        \* inode of the open staging file out, 0 when not open
    off,       \* file offset of out
    exc,       \* the exception propagating through the finally clause
    result,    \* outcome of the invocation: returned path or raised exception
    dir,       \* the temp directory: path -> inode, 0 when absent
    data,      \* content of each inode
    \* observers (history), not read by the function
    reqs,      \* GET requests issued by the invocation
    fsUsed,    \* the invocation has made a file-system call
    orig,      \* the failure the invocation met in the try block
    rmFailed,  \* os.remove raised in the invocation
    lost,      \* the file the invocation published was deleted from outside
    stale,     \* open found a staging file that held bytes
    pub,       \* by URL: the body downloaded by the invocation that published
               \* the file now under the final name, NoBody when there is none
    calls,     \* invocations started so far, by caller
    nDel,      \* external deletions so far
    fetched,   \* URLs a download of which has succeeded (rename done)
    refetched  \* URLs requested again after a download of them succeeded

local == <<pc, url, fullpath, tmppath, body, pos, chunk, fd, off, exc, result>>
world == <<dir, data>>
hist  == <<reqs, fsUsed, orig, rmFailed, lost, stale, pub, calls, nDel, fetched, refetched>>
vars  == <<local, world, hist>>

(***************************************************************************)
(* The file system underneath os.path.exists, open, write, os.replace and  *)
(* os.remove.                                                              *)
(***************************************************************************)
\* what dir holds for a name that is a directory, not a file
DirNode == -1

\* os.path.exists(path): true for a file and for a directory alike
Exists(path) == dir[path] # 0

\* os.path.isfile(path)
IsFile(path) == dir[path] \in Inodes

\* an inode lives while a name links to it or a handle is open on it
Live(i, d, f) == (\E path \in Paths : d[path] = i) \/ (\E p \in Procs : f[p] = i)

\* the storage of inodes that are no longer live is released
Reap(d, f, dt) == [i \in Inodes |-> IF Live(i, d, f) THEN dt[i] ELSE <<>>]

FreeInode == CHOOSE i \in Inodes : ~Live(i, dir, fd) /\ \A j \in 1..(i-1) : Live(j, dir, fd)

\* write(2) of bytes c at offset o of a file holding f: the file grows as
\* needed and a gap between its end and o reads as zero bytes
WriteAt(f, o, c) ==
    [i \in 1..Max(Len(f), o + Len(c)) |->
        IF i > o /\ i <= o + Len(c) THEN c[i - o]
        ELSE IF i <= Len(f) THEN f[i] ELSE 0]

\* content of the file a path names
Content(path) == data[dir[path]]

Active(q) == pc[q] \notin {"idle", "done"}

Init ==
    /\ pc = [p \in Procs |-> "idle"]
    /\ url = [p \in Procs |-> <<>>]
    /\ fullpath = [p \in Procs |-> NoPath]
    /\ tmppath = [p \in Procs |-> NoPath]
    /\ body = [p \in Procs |-> NoBody]
    /\ pos = [p \in Procs |-> 0]
    /\ chunk = [p \in Procs |-> <<>>]
    /\ fd = [p \in Procs |-> 0]
    /\ off = [p \in Procs |-> 0]
    /\ exc = [p \in Procs |-> NoExc]
    /\ result = [p \in Procs |-> NoResult]
    /\ dir = [path \in Paths |-> 0]
    /\ data = [i \in Inodes |-> <<>>]
    /\ reqs = [p \in Procs |-> 0]
    /\ fsUsed = [p \in Procs |-> FALSE]
    /\ orig = [p \in Procs |-> NoExc]
    /\ rmFailed = [p \in Procs |-> FALSE]
    /\ lost = [p \in Procs |-> FALSE]
    /\ stale = [p \in Procs |-> FALSE]
    /\ pub = [u \in Urls |-> NoBody]
    /\ calls = [p \in Procs |-> 0]
    /\ nDel = 0
    /\ fetched = {}
    /\ refetched = {}

(***************************************************************************)
(* get_pdf_local_path(url), lines 7-36: validation, key, existence check.  *)
(***************************************************************************)
\* entry of an invocation: a fresh frame
Begin(p, u) ==
    /\ pc[p] \in {"idle", "done"}
    /\ calls' = [calls EXCEPT ![p] = @ + 1]
    /\ stale' = [stale EXCEPT ![p] = FALSE]
    /\ url' = [url EXCEPT ![p] = u]
    /\ reqs' = [reqs EXCEPT ![p] = 0]
    /\ rmFailed' = [rmFailed EXCEPT ![p] = FALSE]
    /\ UNCHANGED <<body, pos, chunk, fd, off, exc, lost, pub, nDel, fetched, refetched>>

\* lines 20-22: raise ValueError for a scheme other than http, https
Reject(p, u) ==
    /\ Begin(p, u)
    /\ urlparse(u).scheme \notin ValidSchemes
    /\ pc' = [pc EXCEPT ![p] = "done"]
    /\ result' = [result EXCEPT ![p] = Raised("validate")]
    /\ orig' = [orig EXCEPT ![p] = NoExc]
    /\ fsUsed' = [fsUsed EXCEPT ![p] = FALSE]
    /\ UNCHANGED <<fullpath, tmppath, world>>

\* a cache hit that also clears away a staging file it finds
CacheHitSweepsPart(p, u) ==
    /\ Begin(p, u)
    /\ urlparse(u).scheme \in ValidSchemes
    /\ Exists(FullPath(u))
    /\ pc' = [pc EXCEPT ![p] = "done"]
    /\ result' = [result EXCEPT ![p] = Returned(FullPath(u))]
    /\ orig' = [orig EXCEPT ![p] = NoExc]
    /\ fsUsed' = [fsUsed EXCEPT ![p] = TRUE]
    /\ LET d == [dir EXCEPT ![PartOf(FullPath(u))] = 0]
       IN /\ dir' = d
          /\ data' = Reap(d, fd, data)
    /\ UNCHANGED <<fullpath, tmppath>>

\* a cache hit decided by probing the staging name instead of the final one
CacheHitProbesPart(p, u) ==
    /\ Begin(p, u)
    /\ urlparse(u).scheme \in ValidSchemes
    /\ Exists(PartOf(FullPath(u)))
    /\ pc' = [pc EXCEPT ![p] = "done"]
    /\ result' = [result EXCEPT ![p] = Returned(FullPath(u))]
    /\ orig' = [orig EXCEPT ![p] = NoExc]
    /\ fsUsed' = [fsUsed EXCEPT ![p] = TRUE]
    /\ UNCHANGED <<fullpath, tmppath, world>>

\* lines 20-33: os.path.exists(fullpath) holds, return fullpath
CacheHit(p, u) ==
    /\ Begin(p, u)
    /\ urlparse(u).scheme \in ValidSchemes
    /\ Exists(FullPath(u))
    /\ pc' = [pc EXCEPT ![p] = "done"]
    /\ result' = [result EXCEPT ![p] = Returned(FullPath(u))]
    /\ orig' = [orig EXCEPT ![p] = NoExc]
    /\ fsUsed' = [fsUsed EXCEPT ![p] = TRUE]
    /\ UNCHANGED <<fullpath, tmppath, world>>

\* the download is started without looking for the cached file
CacheMissUnchecked(p, u) ==
    /\ Begin(p, u)
    /\ urlparse(u).scheme \in ValidSchemes
    /\ pc' = [pc EXCEPT ![p] = "urlopen"]
    /\ fullpath' = [fullpath EXCEPT ![p] = FullPath(u)]
    /\ tmppath' = [tmppath EXCEPT ![p] = PartOf(FullPath(u))]
    /\ result' = [result EXCEPT ![p] = NoResult]
    /\ orig' = [orig EXCEPT ![p] = NoExc]
    /\ fsUsed' = [fsUsed EXCEPT ![p] = TRUE]
    /\ UNCHANGED world

\* lines 20-36: os.path.exists(fullpath) fails, go on to download
CacheMiss(p, u) ==
    /\ Begin(p, u)
    /\ urlparse(u).scheme \in ValidSchemes
    /\ ~Exists(FullPath(u))
    /\ pc' = [pc EXCEPT ![p] = "urlopen"]
    /\ fullpath' = [fullpath EXCEPT ![p] = FullPath(u)]
    /\ tmppath' = [tmppath EXCEPT ![p] = PartOf(FullPath(u))]
    /\ result' = [result EXCEPT ![p] = NoResult]
    /\ orig' = [orig EXCEPT ![p] = NoExc]
    /\ fsUsed' = [fsUsed EXCEPT ![p] = TRUE]
    /\ UNCHANGED world

(***************************************************************************)
(* Lines 37-47: the download into the staging file and the rename.         *)
(***************************************************************************)
\* an operation inside try raises: the with statement, when entered, is
\* left (resp and out are closed) and control goes to the finally clause
Throw(p, e) ==
    /\ exc' = [exc EXCEPT ![p] = e]
    /\ orig' = [orig EXCEPT ![p] = e]
    /\ pc' = [pc EXCEPT ![p] = "finally"]
    /\ body' = [body EXCEPT ![p] = IF e = "replace" THEN @ ELSE NoBody]
    /\ pos' = [pos EXCEPT ![p] = 0]
    /\ chunk' = [chunk EXCEPT ![p] = <<>>]
    /\ off' = [off EXCEPT ![p] = 0]

\* out.close(): the handle is gone
CloseOut(p) ==
    /\ fd' = [fd EXCEPT ![p] = 0]
    /\ data' = Reap(dir, [fd EXCEPT ![p] = 0], data)

\* line 38: urllib.request.urlopen(url) finds no host in the URL and raises
\* before it sends anything
UrlOpenNoHost(p) ==
    /\ pc[p] = "urlopen"
    /\ urlparse(url[p]).netloc = <<>>
    /\ Throw(p, "urlopen")
    /\ UNCHANGED <<url, fullpath, tmppath, fd, result, world>>
    /\ UNCHANGED <<reqs, fsUsed, rmFailed, lost, stale, pub, calls, nDel, fetched, refetched>>

\* line 38: the GET request fails (no connection, error status)
UrlOpenFail(p) ==
    /\ pc[p] = "urlopen"
    /\ urlparse(url[p]).netloc # <<>>
    /\ Throw(p, "urlopen")
    /\ reqs' = [reqs EXCEPT ![p] = @ + 1]
    /\ refetched' = IF url[p] \in fetched THEN refetched \cup {url[p]} ELSE refetched
    /\ UNCHANGED <<url, fullpath, tmppath, fd, result, world>>
    /\ UNCHANGED <<fsUsed, rmFailed, lost, stale, pub, calls, nDel, fetched>>

\* line 38: the GET request is answered; resp will deliver body b
UrlOpenOk(p) ==
    /\ pc[p] = "urlopen"
    /\ urlparse(url[p]).netloc # <<>>
    /\ \E b \in Bodies : body' = [body EXCEPT ![p] = b]
    /\ pc' = [pc EXCEPT ![p] = "open"]
    /\ reqs' = [reqs EXCEPT ![p] = @ + 1]
    /\ refetched' = IF url[p] \in fetched THEN refetched \cup {url[p]} ELSE refetched
    /\ UNCHANGED <<url, fullpath, tmppath, pos, chunk, fd, off, exc, result, world>>
    /\ UNCHANGED <<fsUsed, orig, rmFailed, lost, stale, pub, calls, nDel, fetched>>

\* line 38: open(tmppath, "wb") raises
OpenFail(p) ==
    /\ pc[p] = "open"
    /\ Throw(p, "open")
    /\ UNCHANGED <<url, fullpath, tmppath, fd, result, world>>
    /\ UNCHANGED <<reqs, fsUsed, rmFailed, lost, stale, pub, calls, nDel, fetched, refetched>>

\* open(tmppath, "ab"): an existing file keeps its content
OpenAppend(p) ==
    /\ pc[p] = "open"
    /\ LET old == dir[tmppath[p]]
           i == IF old # 0 THEN old ELSE FreeInode
       IN /\ dir' = [dir EXCEPT ![tmppath[p]] = i]
          /\ data' = data
          /\ fd' = [fd EXCEPT ![p] = i]
          /\ off' = [off EXCEPT ![p] = Len(data[i])]
          /\ stale' = [stale EXCEPT ![p] = old # 0 /\ data[old] # <<>>]
    /\ pc' = [pc EXCEPT ![p] = "read"]
    /\ UNCHANGED <<url, fullpath, tmppath, body, pos, chunk, exc, result>>
    /\ UNCHANGED <<reqs, fsUsed, orig, rmFailed, lost, pub, calls, nDel, fetched, refetched>>

\* line 38: open(tmppath, "wb"): the file tmppath names is created, or, when
\* it exists, that same file is truncated; out writes from offset 0 (a
\* directory cannot be opened for writing: IsADirectoryError)
OpenOk(p) ==
    /\ pc[p] = "open"
    /\ dir[tmppath[p]] # DirNode
    /\ LET old == dir[tmppath[p]]
           i == IF old # 0 THEN old ELSE FreeInode
       IN /\ dir' = [dir EXCEPT ![tmppath[p]] = i]
          /\ data' = [data EXCEPT ![i] = <<>>]
          /\ fd' = [fd EXCEPT ![p] = i]
          /\ off' = [off EXCEPT ![p] = 0]
          /\ stale' = [stale EXCEPT ![p] = old # 0 /\ data[old] # <<>>]
    /\ pc' = [pc EXCEPT ![p] = "read"]
    /\ UNCHANGED <<url, fullpath, tmppath, body, pos, chunk, exc, result>>
    /\ UNCHANGED <<reqs, fsUsed, orig, rmFailed, lost, pub, calls, nDel, fetched, refetched>>

\* a failed read answered by starting the request again
ReadFailRetries(p) ==
    /\ pc[p] = "read"
    /\ CloseOut(p)
    /\ pc' = [pc EXCEPT ![p] = "urlopen"]
    /\ body' = [body EXCEPT ![p] = NoBody]
    /\ pos' = [pos EXCEPT ![p] = 0]
    /\ chunk' = [chunk EXCEPT ![p] = <<>>]
    /\ off' = [off EXCEPT ![p] = 0]
    /\ UNCHANGED <<url, fullpath, tmppath, exc, result, dir>>
    /\ UNCHANGED hist

\* lines 43, 46: resp.read(8192) raises (reset, timeout, incomplete read)
ReadFail(p) ==
    /\ pc[p] = "read"
    /\ Throw(p, "read")
    /\ CloseOut(p)
    /\ UNCHANGED <<url, fullpath, tmppath, result, dir>>
    /\ UNCHANGED <<reqs, fsUsed, rmFailed, lost, stale, pub, calls, nDel, fetched, refetched>>

\* resp.read(n): the next bytes of the body, at most n, none at its end
NextChunk(p) == SubSeq(body[p], pos[p] + 1, Min(pos[p] + ChunkSize, Len(body[p])))

\* a loop that does not test the chunk: the empty chunk is written too
ReadOkNoLoopTest(p) ==
    /\ pc[p] = "read"
    /\ LET c == NextChunk(p) IN
        /\ chunk' = [chunk EXCEPT ![p] = c]
        /\ pos' = [pos EXCEPT ![p] = @ + Len(c)]
    /\ pc' = [pc EXCEPT ![p] = "write"]
    /\ UNCHANGED <<url, fullpath, tmppath, body, fd, off, exc, result, world>>
    /\ UNCHANGED hist

\* lines 43-44, 46: chunk = resp.read(8192) and the loop test; on the empty
\* chunk the with statement is left and out closed
ReadOk(p) ==
    /\ pc[p] = "read"
    /\ LET c == NextChunk(p) IN
        /\ chunk' = [chunk EXCEPT ![p] = c]
        /\ pos' = [pos EXCEPT ![p] = @ + Len(c)]
        /\ IF c = <<>>
           THEN /\ CloseOut(p)
                /\ pc' = [pc EXCEPT ![p] = "replace"]
           ELSE /\ pc' = [pc EXCEPT ![p] = "write"]
                /\ UNCHANGED <<fd, data>>
    /\ UNCHANGED <<url, fullpath, tmppath, body, off, exc, result, dir>>
    /\ UNCHANGED hist

\* line 45: out.write(chunk) raises (disk full)
WriteFail(p) ==
    /\ pc[p] = "write"
    /\ Throw(p, "write")
    /\ CloseOut(p)
    /\ UNCHANGED <<url, fullpath, tmppath, result, dir>>
    /\ UNCHANGED <<reqs, fsUsed, rmFailed, lost, stale, pub, calls, nDel, fetched, refetched>>

\* line 45: out.write(chunk): the bytes go to out's file at out's offset
WriteOk(p) ==
    /\ pc[p] = "write"
    /\ data' = [data EXCEPT ![fd[p]] = WriteAt(@, off[p], chunk[p])]
    /\ off' = [off EXCEPT ![p] = @ + Len(chunk[p])]
    /\ pc' = [pc EXCEPT ![p] = "read"]
    /\ UNCHANGED <<url, fullpath, tmppath, body, pos, chunk, fd, exc, result, dir>>
    /\ UNCHANGED hist

\* line 47: os.replace(tmppath, fullpath) raises: always when tmppath names
\* no file (FileNotFoundError), possibly otherwise (permissions)
ReplaceFail(p) ==
    /\ pc[p] = "replace"
    /\ Throw(p, "replace")
    /\ UNCHANGED <<url, fullpath, tmppath, fd, result, world>>
    /\ UNCHANGED <<reqs, fsUsed, rmFailed, lost, stale, pub, calls, nDel, fetched, refetched>>

\* line 47: os.replace(tmppath, fullpath): in one step fullpath names the
\* file tmppath named and tmppath names nothing (a file does not replace a
\* directory, nor a directory a file)
ReplaceOk(p) ==
    /\ pc[p] = "replace"
    /\ IsFile(tmppath[p])
    /\ dir[fullpath[p]] # DirNode
    /\ LET d == [dir EXCEPT ![fullpath[p]] = dir[tmppath[p]], ![tmppath[p]] = 0]
       IN /\ dir' = d
          /\ data' = Reap(d, fd, data)
    /\ pc' = [pc EXCEPT ![p] = "finally"]
    /\ fetched' = fetched \cup {url[p]}
    /\ pub' = [pub EXCEPT ![url[p]] = body[p]]
    /\ UNCHANGED <<url, fullpath, tmppath, body, pos, chunk, fd, off, exc, result>>
    /\ UNCHANGED <<reqs, fsUsed, orig, rmFailed, lost, stale, calls, nDel, refetched>>

(***************************************************************************)
(* Lines 48-56: the finally clause and the way out.                        *)
(***************************************************************************)
\* the download branch returns the staging name
LeaveReturnsPart(p) ==
    /\ pc' = [pc EXCEPT ![p] = "done"]
    /\ result' = [result EXCEPT ![p] =
                    IF exc[p] = NoExc THEN Returned(tmppath[p]) ELSE Raised(exc[p])]
    /\ fullpath' = [fullpath EXCEPT ![p] = NoPath]
    /\ tmppath' = [tmppath EXCEPT ![p] = NoPath]
    /\ pos' = [pos EXCEPT ![p] = 0]
    /\ chunk' = [chunk EXCEPT ![p] = <<>>]
    /\ off' = [off EXCEPT ![p] = 0]
    /\ exc' = [exc EXCEPT ![p] = NoExc]
    /\ lost' = [lost EXCEPT ![p] = FALSE]
    /\ stale' = [stale EXCEPT ![p] = FALSE]

\* the finally clause is over: the pending exception propagates, or
\* line 56 returns fullpath; the frame is gone
Leave(p) ==
    /\ pc' = [pc EXCEPT ![p] = "done"]
    /\ result' = [result EXCEPT ![p] =
                    IF exc[p] = NoExc THEN Returned(fullpath[p]) ELSE Raised(exc[p])]
    /\ fullpath' = [fullpath EXCEPT ![p] = NoPath]
    /\ tmppath' = [tmppath EXCEPT ![p] = NoPath]
    /\ pos' = [pos EXCEPT ![p] = 0]
    /\ chunk' = [chunk EXCEPT ![p] = <<>>]
    /\ off' = [off EXCEPT ![p] = 0]
    /\ exc' = [exc EXCEPT ![p] = NoExc]
    /\ lost' = [lost EXCEPT ![p] = FALSE]
    /\ stale' = [stale EXCEPT ![p] = FALSE]

\* a finally clause that cleans nothing up
CheckPartSkipsCleanup(p) ==
    /\ pc[p] = "finally"
    /\ Leave(p)
    /\ UNCHANGED <<url, body, fd, world>>
    /\ UNCHANGED <<reqs, fsUsed, orig, rmFailed, pub, calls, nDel, fetched, refetched>>

\* line 50, left operand: os.path.exists(tmppath)
CheckPart(p) ==
    /\ pc[p] = "finally"
    /\ IF Exists(tmppath[p])
       THEN /\ pc' = [pc EXCEPT ![p] = "finally2"]
            /\ UNCHANGED <<result, fullpath, tmppath, pos, chunk, off, exc, lost, stale>>
       ELSE Leave(p)
    /\ UNCHANGED <<url, body, fd, world>>
    /\ UNCHANGED <<reqs, fsUsed, orig, rmFailed, pub, calls, nDel, fetched, refetched>>

\* line 50, right operand: not os.path.exists(fullpath)
CheckFinal(p) ==
    /\ pc[p] = "finally2"
    /\ IF ~Exists(fullpath[p])
       THEN /\ pc' = [pc EXCEPT ![p] = "remove"]
            /\ UNCHANGED <<result, fullpath, tmppath, pos, chunk, off, exc, lost, stale>>
       ELSE Leave(p)
    /\ UNCHANGED <<url, body, fd, world>>
    /\ UNCHANGED <<reqs, fsUsed, orig, rmFailed, pub, calls, nDel, fetched, refetched>>

\* os.remove raises and nothing catches it: its error is what propagates
RemoveFailRaises(p) ==
    /\ pc[p] = "remove"
    /\ pc' = [pc EXCEPT ![p] = "done"]
    /\ result' = [result EXCEPT ![p] = Raised("remove")]
    /\ fullpath' = [fullpath EXCEPT ![p] = NoPath]
    /\ tmppath' = [tmppath EXCEPT ![p] = NoPath]
    /\ pos' = [pos EXCEPT ![p] = 0]
    /\ chunk' = [chunk EXCEPT ![p] = <<>>]
    /\ off' = [off EXCEPT ![p] = 0]
    /\ exc' = [exc EXCEPT ![p] = NoExc]
    /\ lost' = [lost EXCEPT ![p] = FALSE]
    /\ stale' = [stale EXCEPT ![p] = FALSE]
    /\ rmFailed' = [rmFailed EXCEPT ![p] = TRUE]
    /\ UNCHANGED <<url, body, fd, world>>
    /\ UNCHANGED <<reqs, fsUsed, orig, pub, calls, nDel, fetched, refetched>>

\* lines 51-54: os.remove(tmppath) raises OSError (the file is gone by now,
\* or may not be deleted); except OSError: pass
RemoveFail(p) ==
    /\ pc[p] = "remove"
    /\ Leave(p)
    /\ rmFailed' = [rmFailed EXCEPT ![p] = TRUE]
    /\ UNCHANGED <<url, body, fd, world>>
    /\ UNCHANGED <<reqs, fsUsed, orig, pub, calls, nDel, fetched, refetched>>

\* lines 51-52: os.remove(tmppath) deletes the name tmppath (of a file: it
\* raises for a directory)
RemoveOk(p) ==
    /\ pc[p] = "remove"
    /\ IsFile(tmppath[p])
    /\ LET d == [dir EXCEPT ![tmppath[p]] = 0]
       IN /\ dir' = d
          /\ data' = Reap(d, fd, data)
    /\ Leave(p)
    /\ UNCHANGED <<url, body, fd>>
    /\ UNCHANGED <<reqs, fsUsed, orig, rmFailed, pub, calls, nDel, fetched, refetched>>

(***************************************************************************)
(* The temp directory is shared: any other actor may delete a file of it.  *)
(***************************************************************************)
ExtDelete(path) ==
    /\ nDel < MaxExtDeletes
    /\ Exists(path)
    /\ LET d == [dir EXCEPT ![path] = 0]
       IN /\ dir' = d
          /\ data' = Reap(d, fd, data)
    /\ nDel' = nDel + 1
    /\ pub' = [u \in Urls |-> IF path = FullPath(u) THEN NoBody ELSE pub[u]]
    /\ lost' = [p \in Procs |->
                  lost[p] \/ (/\ path = fullpath[p]
                              /\ pc[p] \in {"finally", "finally2", "remove"}
                              /\ exc[p] = NoExc)]
    /\ UNCHANGED <<local, reqs, fsUsed, orig, rmFailed, stale, calls, fetched, refetched>>

\* another actor creates a directory under a free name of the temp directory
\* (one at a time)
ExtMkdir(path) ==
    /\ ~Exists(path)
    /\ \A q \in Paths : dir[q] # DirNode
    /\ dir' = [dir EXCEPT ![path] = DirNode]
    /\ UNCHANGED <<local, data, hist>>

\* one step of caller p inside an invocation
Transfer(p) ==
    \/ UrlOpenFail(p)
    \/ UrlOpenOk(p)
    \/ OpenFail(p)
    \/ OpenOk(p)
    \/ ReadFail(p)
    \/ ReadOk(p)
    \/ WriteFail(p)
    \/ WriteOk(p)
    \/ ReplaceFail(p)
    \/ ReplaceOk(p)
    \/ CheckPart(p)
    \/ CheckFinal(p)
    \/ RemoveFail(p)
    \/ RemoveOk(p)

\* one step of a running invocation, for any URL that passed validation
Step(p) ==
    \/ UrlOpenNoHost(p)
    \/ Transfer(p)

\* invocations started so far
Started == calls[1] + calls[2]

\* callers invoke the function with any URL, at any time
Next ==
    \/ \E p \in Procs, u \in Urls : Started < MaxCalls /\ Reject(p, u)
    \/ \E p \in Procs, u \in Urls : Started < MaxCalls /\ CacheHit(p, u)
    \/ \E p \in Procs, u \in Urls : Started < MaxCalls /\ CacheMiss(p, u)
    \/ \E p \in Procs : Step(p)
    \/ \E path \in Paths : ExtDelete(path)

Spec == Init /\ [][Next]_vars

\* one caller: invocations follow one another and never overlap
SeqNext ==
    \/ \E u \in Urls : Started < MaxCalls /\ Reject(1, u)
    \/ \E u \in Urls : Started < MaxCalls /\ CacheHit(1, u)
    \/ \E u \in Urls : Started < MaxCalls /\ CacheMiss(1, u)
    \/ Step(1)
    \/ \E path \in Paths : ExtDelete(path)

SpecSeq == Init /\ [][SeqNext]_vars

\* one caller and nobody else
SoloNext ==
    \/ \E u \in Urls : Started < MaxCalls /\ Reject(1, u)
    \/ \E u \in Urls : Started < MaxCalls /\ CacheHit(1, u)
    \/ \E u \in Urls : Started < MaxCalls /\ CacheMiss(1, u)
    \/ Step(1)

\* the function is synchronous: every operation it calls returns or raises,
\* so a running invocation takes its next step
SpecSoloFair == Init /\ [][SoloNext]_vars /\ WF_vars(Step(1))

\* one caller, and other actors that delete files and create directories
DirNext ==
    \/ SeqNext
    \/ \E path \in Paths : ExtMkdir(path)

SpecDir == Init /\ [][DirNext]_vars

\* two callers, each with a URL of its own, no other actor: invocations for
\* different URLs run side by side
UrlOf == <<UrlA, UrlUpper>>

TwoNext ==
    \/ \E p \in Procs : Started < MaxCalls /\ CacheHit(p, UrlOf[p])
    \/ \E p \in Procs : Started < MaxCalls /\ CacheMiss(p, UrlOf[p])
    \/ \E p \in Procs : Transfer(p)

SpecTwo == Init /\ [][TwoNext]_vars

\* two callers, one URL, no other actor: invocations for the same URL race
\* (the URL has a host, so urlopen always issues its request)
RaceNext ==
    \/ \E p \in Procs : Started < MaxRaceCalls /\ CacheHit(p, UrlA)
    \/ \E p \in Procs : Started < MaxRaceCalls /\ CacheMiss(p, UrlA)
    \/ \E p \in Procs : Transfer(p)

SpecRace == Init /\ [][RaceNext]_vars

(***************************************************************************)
(* Properties.                                                             *)
(***************************************************************************)
\* the URLs of the model with scheme http or https, and the others
HttpUrls == {UrlA, UrlASlash, UrlUpper, UrlNoHost}
OtherUrls == {UrlFtp, UrlFile, UrlRel}

IsReturn(r) == r[1] = "return"

\* caller p begins an invocation in this step
Began(p) == calls'[p] = calls[p] + 1

\* caller p leaves the finally clause in this step
LeftFinally(p) == pc[p] \in {"finally", "finally2", "remove"} /\ pc'[p] = "done"

\* C1: with invocations for the same URL racing from a cold cache, the file
\* under the final name is at every moment absent or equal to the complete
\* response body of one of the invocations (the body its request was
\* answered with, whether or not it has read all of it yet).
C1_FinalFileAlwaysComplete ==
    (\A p \in Procs : calls[p] <= 1) =>
        \A u \in HttpUrls :
            Exists(FullPath(u)) =>
                \E p \in Procs : /\ url[p] = u
                                 /\ body[p] # NoBody
                                 /\ Content(FullPath(u)) = body[p]

C3_InvalidSchemeNoIO ==
    \A p \in Procs :
        (pc[p] = "done" /\ url[p] \in OtherUrls) =>
            /\ result[p] = Raised("validate")
            /\ reqs[p] = 0
            /\ ~fsUsed[p]

C3_Witness ==
    \E p \in Procs : pc[p] = "done" /\ url[p] = UrlFtp /\ result[p] = Raised("validate")

\* C4: an invocation that finds a file at its cache path returns that path
\* in the same step, issues no request and leaves the directory as it was:
\* the final file and any staging file are untouched.
C4_CacheHitFrame ==
    [][\A p \in Procs :
        (Began(p) /\ url'[p] \in HttpUrls /\ Exists(FullPath(url'[p]))) =>
            /\ pc'[p] = "done"
            /\ result'[p] = Returned(FullPath(url'[p]))
            /\ reqs'[p] = 0
            /\ dir' = dir
            /\ data' = data]_vars

\* a cache hit with a staging file lying next to the final file
C4_Witness ==
    \E p \in Procs :
        /\ pc[p] = "done" /\ reqs[p] = 0 /\ IsReturn(result[p])
        /\ Exists(FullPath(url[p])) /\ Exists(PartOf(FullPath(url[p])))
        /\ \A q \in Procs : ~Active(q)

\* C5: in a sequence of invocations that do not overlap, with no outside
\* deletion, no request is issued for a URL once a download of it has
\* succeeded, and every invocation for it that is over returned its path.
C5_OneFetchThenHits ==
    nDel = 0 =>
        /\ refetched = {}
        /\ \A p \in Procs :
              (pc[p] = "done" /\ url[p] \in fetched) =>
                  /\ result[p] = Returned(FullPath(url[p]))
                  /\ reqs[p] <= 1

\* a second invocation for a fetched URL returned without a request
C5_Witness ==
    \E p \in Procs :
        /\ pc[p] = "done" /\ calls[p] >= 2 /\ url[p] \in fetched
        /\ reqs[p] = 0 /\ IsReturn(result[p]) /\ nDel = 0

\* C6: after the rename of an invocation that did not overlap another one,
\* the final file holds exactly the body of that invocation's response,
\* whatever a staging file left from before contained.
C6_PublishedEqualsBody ==
    \A p \in Procs :
        (pc[p] \in {"finally", "finally2", "remove"} /\ exc[p] = NoExc
            /\ Exists(fullpath[p])) =>
                Content(fullpath[p]) = body[p]

\* a body of more than one chunk, the last one short, published over a
\* staging file that held bytes
C6_Witness ==
    \E p \in Procs :
        /\ pc[p] = "finally" /\ exc[p] = NoExc /\ Exists(fullpath[p])
        /\ stale[p]
        /\ Len(body[p]) > ChunkSize /\ Len(body[p]) % ChunkSize # 0

\* C7: the error an invocation raises is the failure it met in the try
\* block, also when the cleanup's os.remove failed.
C7_OriginalErrorPropagates ==
    \A p \in Procs :
        (pc[p] = "done" /\ orig[p] # NoExc) => result[p] = Raised(orig[p])

C7_Witness ==
    \E p \in Procs : pc[p] = "done" /\ orig[p] = "write" /\ rmFailed[p]

\* C8: two invocations for the same URL that return a path return the same
\* path, whichever branch served them.
C8_SamePathForSameUrl ==
    \A p, q \in Procs :
        (/\ pc[p] = "done" /\ pc[q] = "done" /\ url[p] = url[q]
         /\ IsReturn(result[p]) /\ IsReturn(result[q])) =>
            result[p] = result[q]

\* one invocation downloaded, the other hit the cache
C8_Witness ==
    \E p, q \in Procs :
        /\ pc[p] = "done" /\ pc[q] = "done" /\ url[p] = url[q]
        /\ IsReturn(result[p]) /\ IsReturn(result[q])
        /\ reqs[p] = 1 /\ reqs[q] = 0

\* C9: the cache path of an invocation differs from the cache path of every
\* URL that differs from its own as a string, and a path is returned only
\* for a URL that was itself downloaded.
C9_DistinctUrlsDistinctPaths ==
    /\ \A p \in Procs :
          fullpath[p] # NoPath =>
              \A u \in HttpUrls \ {url[p]} : fullpath[p] # FullPath(u)
    /\ \A p \in Procs :
          (pc[p] = "done" /\ IsReturn(result[p])) => url[p] \in fetched

\* with http://x/a cached, HTTP://x/a or http://x/a/ was downloaded anew
C9_Witness ==
    \E p \in Procs :
        /\ pc[p] = "done" /\ url[p] \in {UrlUpper, UrlASlash}
        /\ reqs[p] = 1 /\ IsReturn(result[p])
        /\ UrlA \in fetched /\ nDel = 0

\* C10 as claimed: whenever a path is returned, a file exists at that path
\* at that moment, whatever an outside actor deletes.
C10_FileExistsAtReturn ==
    [][\A p \in Procs :
        ((Began(p) \/ LeftFinally(p)) /\ IsReturn(result'[p])) =>
            dir'[result'[p][2]] # 0]_vars

\* C10, amended: a path returned by the cache-hit branch names an existing
\* file at the moment of return; a path returned after a download names an
\* existing file unless an outside actor deleted it after the rename.
C10_FileExistsAtReturnUnlessDeleted ==
    [][\A p \in Procs :
        ((Began(p) \/ LeftFinally(p)) /\ IsReturn(result'[p])) =>
            dir'[result'[p][2]] # 0 \/ lost[p]]_vars

\* a path is returned for a file an outside actor deleted after the rename
C10_Witness ==
    \E p \in Procs : pc[p] = "finally" /\ exc[p] = NoExc /\ lost[p]

(***************************************************************************)
(* The exceptions behind the failure sites.  The function wraps nothing:   *)
(* what an operation raises is what the caller gets, and the caller tells  *)
(* kinds apart with except clauses, that is by class.                      *)
(***************************************************************************)
\* direct base class of the exception classes the operations raise
BaseOf ==
    [c \in {"HTTPError", "URLError", "ConnectionResetError", "ConnectionError",
            "TimeoutError", "IncompleteRead", "HTTPException",
            "PermissionError", "FileNotFoundError", "OSError", "ValueError",
            "Exception"} |->
        CASE c = "HTTPError" -> "URLError"
          [] c = "URLError" -> "OSError"
          [] c = "ConnectionResetError" -> "ConnectionError"
          [] c = "ConnectionError" -> "OSError"
          [] c = "TimeoutError" -> "OSError"
          [] c = "PermissionError" -> "OSError"
          [] c = "FileNotFoundError" -> "OSError"
          [] c = "IncompleteRead" -> "HTTPException"
          [] OTHER -> "Exception"]

RECURSIVE IsSubclass(_, _)
\* issubclass(c, k)
IsSubclass(c, k) ==
    \/ c = k
    \/ c # "Exception" /\ IsSubclass(BaseOf[c], k)

\* the classes of the exceptions each operation of the function raises
ExcClasses(site) ==
    CASE site = "validate" -> {"ValueError"}
      [] site = "urlopen" -> {"URLError", "HTTPError"}
      [] site = "read" -> {"ConnectionResetError", "TimeoutError", "IncompleteRead"}
      [] site = "open" -> {"PermissionError", "FileNotFoundError", "OSError"}
      [] site = "write" -> {"OSError"}
      [] site = "replace" -> {"FileNotFoundError", "PermissionError", "OSError"}
      [] OTHER -> {"OSError"}

\* the two kinds the docstring names: URLError/HTTPError for the download,
\* OSError for file operations
IsDownloadError(c) == IsSubclass(c, "URLError")
IsFilesystemError(c) == IsSubclass(c, "OSError")

NetworkSites == {"urlopen", "read"}
FileSites == {"open", "write", "replace"}

\* C11: a failure of the network (request, stream) reaches the caller as an
\* exception of the download kind, and a failure of a file operation as one
\* of the file-system kind that is not of the download kind (a caller that
\* tests for the download kind first tells the two apart).
C11_ErrorKindsSeparate ==
    \A p \in Procs :
        (pc[p] = "done" /\ result[p][1] = "raise") =>
            \A c \in ExcClasses(result[p][2]) :
                /\ result[p][2] \in NetworkSites => IsDownloadError(c)
                /\ result[p][2] \in FileSites =>
                      IsFilesystemError(c) /\ ~IsDownloadError(c)

\* C12: an invocation that has read its response to the end and written
\* every chunk can publish: the staging file is there for os.replace, which
\* raises FileNotFoundError when its source is missing, also when other
\* invocations for the same URL run at the same time.
C12_CompleteStreamCanPublish ==
    \A p \in Procs : pc[p] = "replace" => Exists(tmppath[p])

\* caller p's os.remove deletes the staging name in this step
Removes(p) == pc[p] = "remove" /\ pc'[p] = "done" /\ dir'[tmppath[p]] = 0
                  /\ dir[tmppath[p]] # 0

\* C13: the os.remove of an invocation's cleanup never deletes a staging
\* file that another invocation, still running, has open for writing.
C13_CleanupRemovesOwnPartOnly ==
    [][\A p \in Procs :
        Removes(p) => \A q \in Procs \ {p} : fd[q] # dir[tmppath[p]]]_vars

\* C14: with no actor outside the routine, a file published under a final
\* name stays as it is: no step of any invocation changes its content,
\* puts another file under the name or deletes it.
C14_PublishedFileImmutable ==
    [][\A u \in HttpUrls :
        Exists(FullPath(u)) =>
            /\ dir'[FullPath(u)] = dir[FullPath(u)]
            /\ data'[dir[FullPath(u)]] = data[dir[FullPath(u)]]]_vars

\* C15: an invocation returns from the cache-hit branch only when the cache
\* path names a regular file.
C15_CacheHitOnlyOnRegularFile ==
    [][\A p \in Procs :
        (Began(p) /\ IsReturn(result'[p])) => IsFile(FullPath(url'[p]))]_vars

\* an absolute http or https URL: the scheme is one of the two and a host
\* follows it
WellFormed(u) == urlparse(u).scheme \in ValidSchemes /\ urlparse(u).netloc # <<>>

\* C16: an invocation for a URL that is not a well-formed absolute http or
\* https URL (wrong scheme, or no host) ends with the invalid-URL error,
\* having made no request and no file-system call.
C16_MalformedUrlRejectedBeforeIO ==
    \A p \in Procs :
        (pc[p] = "done" /\ ~WellFormed(url[p])) =>
            /\ result[p] = Raised("validate")
            /\ reqs[p] = 0
            /\ ~fsUsed[p]

Moved(p) == pc'[p] # pc[p] \/ calls'[p] # calls[p]

\* the final and the staging name of URL u and the files under them are
\* the same before and after the step
FilesUntouched(u) ==
    \A path \in {FullPath(u), PartOf(FullPath(u))} :
        /\ dir'[path] = dir[path]
        /\ IsFile(path) => data'[dir[path]] = data[dir[path]]

\* C18: a step of an invocation for URL u leaves the final and the staging
\* file of every other URL as they are: which names exist, which files they
\* name and what the files hold.
C18_OtherUrlsUntouched ==
    [][\A p \in Procs :
        Moved(p) => \A u \in HttpUrls \ {url'[p]} : FilesUntouched(u)]_vars

\* both callers are downloading, each into a staging file of its own that
\* holds bytes
C18_Witness ==
    \E p, q \in Procs :
        /\ url[p] # url[q]
        /\ fd[p] # 0 /\ fd[q] # 0 /\ fd[p] # fd[q]
        /\ data[fd[p]] # <<>> /\ data[fd[q]] # <<>>

TrySteps == {"urlopen", "open", "read", "write", "replace"}
FinallySteps == {"finally", "finally2", "remove"}

\* the control flow of one step of caller p: the chunk loop goes on with a
\* chunk that holds bytes and ends with the empty one, at the end of the
\* body; the finally clause is entered from the try block only and is the
\* only way out of the download branch
OneCleanup(p) ==
    /\ (pc[p] = "read" /\ pc'[p] = "write") => chunk'[p] # <<>>
    /\ (pc[p] = "read" /\ pc'[p] = "replace") =>
          chunk'[p] = <<>> /\ pos'[p] = Len(body[p])
    /\ (pc'[p] = "finally" /\ pc[p] # "finally") => pc[p] \in TrySteps
    /\ (pc[p] \in TrySteps /\ pc'[p] # pc[p]) => pc'[p] \in TrySteps \cup {"finally"}
    /\ (pc[p] \in FinallySteps /\ pc'[p] # pc[p]) =>
          pc'[p] \in {"finally2", "remove", "done"} /\ pc'[p] # "finally"
    /\ (pc'[p] = "done" /\ pc[p] # "done") =>
          /\ result'[p][1] \in {"return", "raise"}
          /\ pc[p] \in FinallySteps \/ Began(p)

====
